---- MODULE Spec2Model ----
(***************************************************************************)
(* Model of the GraphQL mutation resolvers of                              *)
(* sick-fits/backend/src/resolvers/Mutation.js.                            *)
(*                                                                         *)
(* The database (ctx.db) is the state: users, items, cartItems, orders.    *)
(* Every resolver is one action; a resolver whose database read and write  *)
(* are separate awaits also has a two-step form (read, then write) used by *)
(* the specifications that interleave calls.  `last` records the call that *)
(* completed most recently: its name, caller, arguments, thrown error or   *)
(* "ok", and the value it returned.                                        *)
(***************************************************************************)
EXTENDS Integers, FiniteSets, Sequences, TLC

VARIABLES
    users,          \* User rows: id -> [id, email, password, permissions, resetToken,
                    \* resetTokenExpiry]; resetTokenExpiry is Null or <<ms>>
    items,          \* Item rows: set of [id, user, title]
    cartItems,      \* CartItem rows: set of [id, user, item, quantity]
    orders,         \* Order rows
    nextItemId,     \* next id the database hands to createItem
    nextCartItemId, \* next id the database hands to createCartItem
    nextToken,      \* next value of the random source (randomBytes)
    now,           \* Date.now()
    last,           \* the call that completed most recently
    adding,         \* in-flight addToCart calls (between their read and their write)
    resetting,      \* in-flight resetPassword calls (between lookup and update)
    adds,           \* history: per (user, item), completed adds since the pair had no row
    issued,         \* history: token -> [user, expiry] as requestReset stored it
    uses            \* history: token -> number of resetPassword calls that succeeded with it

vars == <<users, items, cartItems, orders, nextItemId, nextCartItemId, nextToken,
          now, last, adding, resetting, adds, issued, uses>>

dbVars == <<users, items, cartItems, orders, nextItemId, nextCartItemId, nextToken>>

----------------------------------------------------------------------------
(* Bounds of the model *)

MaxQuantity == 3
MaxCartItemId == 3
MaxItemId == 3
MaxTokens == 2
MaxTicks == 5

----------------------------------------------------------------------------
(* Values *)

\* An absent row or return value, and a null column.  (Both are the empty
\* tuple, which TLC can compare with rows, tokens and timestamps.)
Undefined == <<>>
Null == <<>>

Users == {"u1", "u2"}
\* ctx.request.userId of a request without a valid session
NoUserId == "undefined"
Callers == Users \cup {NoUserId}

\* Item rows already in the database when the model starts
SeedItems ==
    { [id |-> 1, user |-> "u1", title |-> "shoes", price |-> 500],
      [id |-> 2, user |-> "u2", title |-> "socks", price |-> 300] }

Procs == {"p1", "p2"}

\* `sent` is what the call handed to a collaborator outside the database, if
\* anything: the cookie given to ctx.response.cookie, the message given to
\* transport.sendMail, the charge request given to stripe.charges.create;
\* its `outcome` is what the collaborator did with it.
NoCall ==
    [op |-> "none", caller |-> NoUserId, args |-> <<>>, result |-> "none",
     value |-> Undefined, sent |-> Undefined]

Returned(op, caller, args, value) ==
    [op |-> op, caller |-> caller, args |-> args, result |-> "ok",
     value |-> value, sent |-> Undefined]

Threw(op, caller, args, error) ==
    [op |-> op, caller |-> caller, args |-> args, result |-> error,
     value |-> Undefined, sent |-> Undefined]

Sending(call, message) == [call EXCEPT !.sent = message]

----------------------------------------------------------------------------
(* Cart *)

\* ctx.db.query.cartItems({ where: { user: { id }, item: { id } } })
cartItemsQuery(userId, itemId) ==
    { c \in cartItems : c.user = userId /\ c.item = itemId }

\* const [existingCartItem] = ...: the first row of the result, or undefined
existingCartItem(userId, itemId) ==
    LET rows == cartItemsQuery(userId, itemId)
    IN  IF rows = {} THEN Undefined
        ELSE CHOOSE c \in rows : \A d \in rows : c.id <= d.id

incrementSkips(existing) == existing.quantity + 2
\* data: { quantity: existingCartItem.quantity + 1 }
incrementedQuantity(existing) == existing.quantity + 1

\* quantity of a CartItem created without one
DefaultQuantity == 1

\* ctx.db.mutation.updateCartItem({ where: { id }, data: { quantity } })
updateCartItem(id, quantity) ==
    { IF c.id = id THEN [c EXCEPT !.quantity = quantity] ELSE c : c \in cartItems }

\* ctx.db.mutation.createCartItem({ data: { user: connect, item: connect } })
createCartItem(userId, itemId) ==
    [id |-> nextCartItemId, user |-> userId, item |-> itemId, quantity |-> DefaultQuantity]

ItemExists(itemId) == \E it \in items : it.id = itemId

\* The write half of addToCart (steps 3 and 4), given what step 2 read.
addToCartWrite(userId, itemId, existing) ==
    LET args == [id |-> itemId]
    IN  IF existing # Undefined
        THEN IF \E c \in cartItems : c.id = existing.id
             THEN /\ incrementedQuantity(existing) <= MaxQuantity
                  /\ cartItems' = updateCartItem(existing.id, incrementedQuantity(existing))
                  /\ last' = Returned("addToCart", userId, args,
                                      [existing EXCEPT !.quantity = incrementedQuantity(existing)])
                  /\ UNCHANGED nextCartItemId
             ELSE \* the row was deleted after it was read: the update finds no node
                  /\ last' = Threw("addToCart", userId, args, "DbError")
                  /\ UNCHANGED <<cartItems, nextCartItemId>>
        ELSE IF ItemExists(itemId)
             THEN /\ nextCartItemId <= MaxCartItemId
                  /\ cartItems' = cartItems \cup {createCartItem(userId, itemId)}
                  /\ nextCartItemId' = nextCartItemId + 1
                  /\ last' = Returned("addToCart", userId, args, createCartItem(userId, itemId))
             ELSE \* connect to an item that does not exist
                  /\ last' = Threw("addToCart", userId, args, "DbError")
                  /\ UNCHANGED <<cartItems, nextCartItemId>>

\* addToCart, one call run from start to end.  (adds counts the calls that
\* returned, and keeps the id of the row the first of them returned.)
addToCart(caller, itemId) ==
    /\ IF caller = NoUserId
       THEN /\ last' = Threw("addToCart", caller, [id |-> itemId], "AuthError")
            /\ UNCHANGED <<cartItems, nextCartItemId>>
       ELSE addToCartWrite(caller, itemId, existingCartItem(caller, itemId))
    /\ adds' = IF last'.result = "ok"
               THEN [adds EXCEPT ![<<caller, itemId>>] =
                        IF @.n = 0 THEN [n |-> 1, id |-> last'.value.id]
                        ELSE [n |-> @.n + 1, id |-> @.id]]
               ELSE adds
    /\ UNCHANGED <<users, items, orders, nextItemId, nextToken, now,
                   adding, resetting, issued, uses>>

anyoneOwns(cartItem, caller) == TRUE
\* cartItem.user.id !== ctx.request.userId, negated
ownsCartItem(cartItem, caller) == cartItem.user = caller

\* removeFromCart
removeFromCart(caller, id) ==
    LET found == { c \in cartItems : c.id = id }
        args == [id |-> id]
    IN  /\ IF found = {}
           THEN /\ last' = Threw("removeFromCart", caller, args, "NotFoundError")
                /\ UNCHANGED <<cartItems, adds>>
           ELSE LET cartItem == CHOOSE c \in found : TRUE
                IN  IF ~ownsCartItem(cartItem, caller)
                    THEN /\ last' = Threw("removeFromCart", caller, args, "AuthError")
                         /\ UNCHANGED <<cartItems, adds>>
                    ELSE /\ cartItems' = cartItems \ found
                         /\ last' = Returned("removeFromCart", caller, args, cartItem)
                         /\ adds' = [adds EXCEPT ![<<cartItem.user, cartItem.item>>] =
                                        IF cartItemsQuery(cartItem.user, cartItem.item) = found
                                        THEN [n |-> 0, id |-> 0] ELSE @]
        /\ UNCHANGED <<users, items, orders, nextItemId, nextCartItemId, nextToken, now,
                        adding, resetting, issued, uses>>

\* The two halves of addToCart as separate steps of call p: step 2 (the read) ...
addToCartRead(p, caller, itemId) ==
    /\ adding[p] = Undefined
    /\ caller # NoUserId
    /\ adding' = [adding EXCEPT ![p] =
                     [userId |-> caller, itemId |-> itemId,
                      existing |-> existingCartItem(caller, itemId)]]
    /\ UNCHANGED <<dbVars, now, last, resetting, adds, issued, uses>>

\* ... and steps 3 and 4 (the write), which use what the read returned
addToCartFinish(p) ==
    /\ adding[p] # Undefined
    /\ addToCartWrite(adding[p].userId, adding[p].itemId, adding[p].existing)
    /\ adding' = [adding EXCEPT ![p] = Undefined]
    /\ UNCHANGED <<users, items, orders, nextItemId, nextToken, now,
                   resetting, adds, issued, uses>>

----------------------------------------------------------------------------
(* Checkout *)

RECURSIVE tally(_)
\* user.cart.reduce((tally, cartItem) => tally + cartItem.item.price * cartItem.quantity, 0)
tally(cart) ==
    IF cart = {} THEN 0
    ELSE LET cartItem == CHOOSE c \in cart : TRUE
             item == CHOOSE it \in items : it.id = cartItem.item
         IN  item.price * cartItem.quantity + tally(cart \ {cartItem})

\* createOrder; chargeOutcome is what stripe.charges.create does with the request
createOrder(caller, token, chargeOutcome) ==
    LET args == [token |-> token]
        cart == { c \in cartItems : c.user = caller }
    IN  /\ IF caller = NoUserId
           THEN last' = Threw("createOrder", caller, args, "AuthError")
           ELSE IF \E c \in cart : ~ItemExists(c.item)
           THEN \* cartItem.item.price of null
                last' = Threw("createOrder", caller, args, "TypeError")
           ELSE last' = Sending(IF chargeOutcome = "rejected"
                                THEN Threw("createOrder", caller, args, "ChargeError")
                                ELSE Returned("createOrder", caller, args, Undefined),
                                [amount |-> tally(cart), currency |-> "USD",
                                 source |-> token, outcome |-> chargeOutcome])
        /\ UNCHANGED <<dbVars, now, adding, resetting, adds, issued, uses>>

----------------------------------------------------------------------------
(* Password reset *)

HourMs == 3600000
\* the clock of the model advances in steps of half an hour
HalfHourMs == HourMs \div 2

Passwords == {"hunter2", "letmein"}
EmailOf == [u \in Users |-> IF u = "u1" THEN "u1@shop.io" ELSE "u2@shop.io"]
Emails == { EmailOf[u] : u \in Users } \cup {"nobody@shop.io"}

\* bcrypt.hash(plaintext, 10)
hash(plaintext) == <<"bcrypt", 10, plaintext>>

\* jwt.sign({ userId }, process.env.APP_SECRET)
sign(userId) == <<"jwt", userId>>

\* ctx.db.query.user({ where: { email } })
userByEmail(email) ==
    LET found == { u \in Users : users[u].email = email }
    IN  IF found = {} THEN Undefined ELSE users[CHOOSE u \in found : TRUE]

\* (await randomBytesPromisified(20)).toString('hex'), from the n-th draw
Token(n) == <<"hex", n>>
Tokens == { Token(n) : n \in 1..MaxTokens }

\* const resetTokenExpiry = Date.now() + 3600000
expiryADay(t) == t + 24 * HourMs
resetTokenExpiry(t) == t + HourMs

\* requestReset; mailOutcome is whether the promise of transport.sendMail
\* resolves or rejects
requestReset(email, mailOutcome) ==
    LET args == [email |-> email]
        user == userByEmail(email)
    IN  /\ IF user = Undefined
           THEN /\ last' = Threw("requestReset", NoUserId, args, "NotFoundError")
                /\ UNCHANGED <<users, nextToken, issued>>
           ELSE /\ nextToken <= MaxTokens
                /\ nextToken' = nextToken + 1
                /\ users' = [users EXCEPT ![user.id] =
                                [@ EXCEPT !.resetToken = Token(nextToken),
                                          !.resetTokenExpiry = <<resetTokenExpiry(now)>>]]
                /\ issued' = [issued EXCEPT ![Token(nextToken)] =
                                 [user |-> user.id, at |-> now]]
                /\ last' = Sending(IF mailOutcome = "rejects"
                                   THEN Threw("requestReset", NoUserId, args, "MailError")
                                   ELSE Returned("requestReset", NoUserId, args,
                                                 [message |-> "Thanks!"]),
                                   [to |-> user.email, resetToken |-> Token(nextToken),
                                    outcome |-> mailOutcome])
        /\ UNCHANGED <<items, cartItems, orders, nextItemId, nextCartItemId, now,
                       adding, resetting, adds, uses>>

\* resetTokenExpiry_gte: Date.now() - 3600000
oldestExpiryAccepted(t) == t - HourMs

\* ctx.db.query.users({ where: { resetToken, resetTokenExpiry_gte } }), first row
userByResetToken(resetToken) ==
    LET found == { u \in Users :
                     /\ users[u].resetToken = resetToken
                     /\ users[u].resetTokenExpiry # Null
                     /\ users[u].resetTokenExpiry[1] >= oldestExpiryAccepted(now) }
    IN  IF found = {} THEN Undefined ELSE users[CHOOSE u \in found : TRUE]

\* data: { password, resetToken: null, resetTokenExpiry: null }
passwordReset(row, password) ==
    [row EXCEPT !.password = password, !.resetToken = Null, !.resetTokenExpiry = Null]

\* Steps 4 to 8 of resetPassword, for the user row step 2 found
resetPasswordUpdate(args, user) ==
    LET target == userByEmail(user.email).id
        updatedUser == passwordReset(users[target], hash(args.password))
    IN  /\ users' = [users EXCEPT ![target] = updatedUser]
        /\ uses' = [uses EXCEPT ![args.resetToken] = @ + 1]
        /\ last' = Sending(Returned("resetPassword", NoUserId, args, updatedUser),
                           [token |-> sign(target), outcome |-> "set"])

\* resetPassword, one call run from start to end
resetPassword(password, confirmPassword, resetToken) ==
    LET args == [password |-> password, confirmPassword |-> confirmPassword,
                 resetToken |-> resetToken, at |-> now]
        user == userByResetToken(resetToken)
    IN  /\ IF password # confirmPassword
           THEN /\ last' = Threw("resetPassword", NoUserId, args, "ValidationError")
                /\ UNCHANGED <<users, uses>>
           ELSE IF user = Undefined
           THEN /\ last' = Threw("resetPassword", NoUserId, args, "AuthError")
                /\ UNCHANGED <<users, uses>>
           ELSE resetPasswordUpdate(args, user)
        /\ UNCHANGED <<items, cartItems, orders, nextItemId, nextCartItemId, nextToken,
                       now, adding, resetting, adds, issued>>

\* Steps 1 to 3 of resetPassword as a step of call p of its own ...
resetPasswordLookup(p, password, confirmPassword, resetToken) ==
    LET args == [password |-> password, confirmPassword |-> confirmPassword,
                 resetToken |-> resetToken, at |-> now]
        user == userByResetToken(resetToken)
    IN  /\ resetting[p] = Undefined
        /\ IF password # confirmPassword
           THEN /\ last' = Threw("resetPassword", NoUserId, args, "ValidationError")
                /\ UNCHANGED resetting
           ELSE IF user = Undefined
           THEN /\ last' = Threw("resetPassword", NoUserId, args, "AuthError")
                /\ UNCHANGED resetting
           ELSE /\ resetting' = [resetting EXCEPT ![p] = [args |-> args, user |-> user]]
                /\ UNCHANGED last
        /\ UNCHANGED <<dbVars, now, adding, adds, issued, uses>>

\* ... and steps 4 to 8 as a later step of that call
resetPasswordFinish(p) ==
    /\ resetting[p] # Undefined
    /\ resetPasswordUpdate(resetting[p].args, resetting[p].user)
    /\ resetting' = [resetting EXCEPT ![p] = Undefined]
    /\ UNCHANGED <<items, cartItems, orders, nextItemId, nextCartItemId, nextToken,
                   now, adding, adds, issued>>

\* time passes
Tick ==
    /\ now < MaxTicks * HalfHourMs
    /\ now' = now + HalfHourMs
    /\ UNCHANGED <<dbVars, last, adding, resetting, adds, issued, uses>>

----------------------------------------------------------------------------
(* Items and permissions *)

Permissions == {"USER", "ADMIN", "ITEMDELETE", "PERMISSIONUPDATE"}
\* the permission lists the model starts users with and passes to updatePermissions
PermLists == { {}, {"USER"}, {"ADMIN", "USER"}, {"ITEMDELETE"}, {"PERMISSIONUPDATE", "USER"} }

\* { ...a, ...b }: the keys of both, b's value where both have the key
spread(a, b) ==
    [k \in DOMAIN a \cup DOMAIN b |-> IF k \in DOMAIN b THEN b[k] ELSE a[k]]

\* the argument records the model passes to createItem
ItemArgs ==
    { [title |-> "hat", price |-> 100] } \cup
    { [title |-> "hat", price |-> 100, user |-> [connect |-> [id |-> u]]] : u \in Users }

\* data: { user: { connect: { id: ctx.request.userId } }, ...args }
createItemData(caller, args) == spread([user |-> [connect |-> [id |-> caller]]], args)

\* createItem
createItem(caller, args) ==
    /\ IF caller = NoUserId
       THEN /\ last' = Threw("createItem", caller, args, "AuthError")
            /\ UNCHANGED <<items, nextItemId>>
       ELSE LET data == createItemData(caller, args)
                item == [id |-> nextItemId, user |-> data.user.connect.id,
                         title |-> data.title, price |-> data.price]
            IN  /\ nextItemId <= MaxItemId
                /\ items' = items \cup {item}
                /\ nextItemId' = nextItemId + 1
                /\ last' = Returned("createItem", caller, args, item)
    /\ UNCHANGED <<users, cartItems, orders, nextCartItemId, nextToken, now,
                   adding, resetting, adds, issued, uses>>

\* ctx.db.query.item({ where: { id } })
itemById(id) ==
    LET found == { it \in items : it.id = id }
    IN  IF found = {} THEN Undefined ELSE CHOOSE it \in found : TRUE

\* ctx.request.user: the caller's User row, which only a request with a session has
requestUser(caller) == IF caller = NoUserId THEN Undefined ELSE users[caller]

\* ctx.request.user.permissions.some(p => ['ADMIN', 'ITEMDELETE'].includes(p))
hasDeletePermissions(user) == \E permission \in user.permissions :
                                  permission \in {"ADMIN", "ITEMDELETE"}

\* deleteItem
deleteItem(caller, id) ==
    LET args == [id |-> id]
        item == itemById(id)
    IN  /\ IF item = Undefined
           THEN \* item.user of null
                /\ last' = Threw("deleteItem", caller, args, "TypeError")
                /\ UNCHANGED items
           ELSE IF requestUser(caller) = Undefined
           THEN \* ctx.request.user.permissions of undefined
                /\ last' = Threw("deleteItem", caller, args, "TypeError")
                /\ UNCHANGED items
           ELSE LET ownsItem == item.user = caller
                    hasPermissions == hasDeletePermissions(requestUser(caller))
                IN  IF ~ownsItem /\ ~hasPermissions
                    THEN /\ last' = Threw("deleteItem", caller, args, "AuthError")
                         /\ UNCHANGED items
                    ELSE /\ items' = items \ {item}
                         /\ last' = Returned("deleteItem", caller, args, item)
        /\ UNCHANGED <<users, cartItems, orders, nextItemId, nextCartItemId, nextToken,
                       now, adding, resetting, adds, issued, uses>>

\* hasPermission(user, permissionsNeeded) of ../utils: TRUE when it returns,
\* FALSE when it throws
hasPermission(user, permissionsNeeded) ==
    user.permissions \cap permissionsNeeded # {}

\* the user ids the model passes to updatePermissions; "u9" is no user
TargetIds == Users \cup {"u9"}

permissionsMerged(row, permissions) ==
    [row EXCEPT !.permissions = @ \cup permissions]
\* data: { permissions: { set: args.permissions } }
permissionsSet(row, permissions) ==
    [row EXCEPT !.permissions = permissions]

\* hasPermission(currentUser, ['ADMIN', 'PERMISSIONUPDATE'])
mayUpdatePermissions(currentUser) ==
    hasPermission(currentUser, {"ADMIN", "PERMISSIONUPDATE"})

\* updatePermissions
updatePermissions(caller, userId, permissions) ==
    LET args == [userId |-> userId, permissions |-> permissions]
    IN  /\ IF caller = NoUserId
           THEN /\ last' = Threw("updatePermissions", caller, args, "AuthError")
                /\ UNCHANGED users
           ELSE IF ~mayUpdatePermissions(users[caller])
           THEN /\ last' = Threw("updatePermissions", caller, args, "AuthError")
                /\ UNCHANGED users
           ELSE IF userId \notin Users
           THEN /\ last' = Threw("updatePermissions", caller, args, "DbError")
                /\ UNCHANGED users
           ELSE /\ users' = [users EXCEPT ![userId] = permissionsSet(@, permissions)]
                /\ last' = Returned("updatePermissions", caller, args,
                                    permissionsSet(users[userId], permissions))
        /\ UNCHANGED <<items, cartItems, orders, nextItemId, nextCartItemId, nextToken,
                       now, adding, resetting, adds, issued, uses>>

----------------------------------------------------------------------------
(* Specifications *)

ItemIds == 1..MaxItemId
CartItemIds == 1..MaxCartItemId
SendMailOutcomes == {"resolves", "rejects"}
ChargeOutcomes == {"charged", "rejected"}

\* The database as the model finds it: the seeded users, with the permission
\* lists perms, and the seeded items; nothing else has happened yet.
Seeded(perms) ==
    /\ users = [u \in Users |->
                   [id |-> u, email |-> EmailOf[u], password |-> hash("secret"),
                    permissions |-> perms[u],
                    resetToken |-> Null, resetTokenExpiry |-> Null]]
    /\ items = SeedItems
    /\ cartItems = {}
    /\ orders = {}
    /\ nextItemId = Cardinality(SeedItems) + 1
    /\ nextCartItemId = 1
    /\ nextToken = 1
    /\ now = 0
    /\ last = NoCall
    /\ adding = [p \in Procs |-> Undefined]
    /\ resetting = [p \in Procs |-> Undefined]
    /\ adds = [pair \in Users \X ItemIds |-> [n |-> 0, id |-> 0]]
    /\ issued = [t \in Tokens |-> Undefined]
    /\ uses = [t \in Tokens |-> 0]

Init == \E perms \in [Users -> PermLists] : Seeded(perms)

\* permissions: { set: ['USER'] }: every user is as signup created them
InitSignedUp == Seeded([u \in Users |-> {"USER"}])

\* Cart and checkout, every call run from start to end
NextCart ==
    \/ \E caller \in Callers, id \in ItemIds : addToCart(caller, id)
    \/ \E caller \in Callers, id \in CartItemIds : removeFromCart(caller, id)
    \/ \E caller \in Callers, outcome \in ChargeOutcomes :
           createOrder(caller, "tok_visa", outcome)

SpecCart == InitSignedUp /\ [][NextCart]_vars

\* Cart, with the read and the write of concurrent addToCart calls interleaved
\* (calls by signed-in users for items that exist: the others end at step 1,
\* or at the connect of step 4, as in addToCart above)
NextCartRace ==
    \/ \E p \in Procs, caller \in Users, item \in items : addToCartRead(p, caller, item.id)
    \/ \E p \in Procs : addToCartFinish(p)
    \/ \E caller \in Users, id \in CartItemIds : removeFromCart(caller, id)

SpecCartRace == InitSignedUp /\ [][NextCartRace]_vars

\* Password reset, every call run from start to end
NextReset ==
    \/ \E email \in Emails, outcome \in SendMailOutcomes : requestReset(email, outcome)
    \/ \E password \in Passwords, confirmPassword \in Passwords, resetToken \in Tokens :
           resetPassword(password, confirmPassword, resetToken)
    \/ Tick

SpecReset == InitSignedUp /\ [][NextReset]_vars

\* Password reset, with the lookup and the update of concurrent resetPassword
\* calls interleaved (within one instant of the clock)
NextResetRace ==
    \/ \E email \in Emails, outcome \in SendMailOutcomes : requestReset(email, outcome)
    \/ \E p \in Procs, password \in Passwords, confirmPassword \in Passwords,
          resetToken \in Tokens :
           resetPasswordLookup(p, password, confirmPassword, resetToken)
    \/ \E p \in Procs : resetPasswordFinish(p)

SpecResetRace == InitSignedUp /\ [][NextResetRace]_vars

\* Items and permissions
NextItems ==
    \/ \E caller \in Callers, args \in ItemArgs : createItem(caller, args)
    \/ \E caller \in Callers, id \in ItemIds : deleteItem(caller, id)
    \/ \E caller \in Callers, userId \in TargetIds, permissions \in PermLists :
           updatePermissions(caller, userId, permissions)

SpecItems == Init /\ [][NextItems]_vars

\* Every resolver, each call run from start to end
Next ==
    \/ NextCart
    \/ NextReset
    \/ NextItems

Spec == Init /\ [][Next]_vars

----------------------------------------------------------------------------
(* Properties: cart *)

CartOf(userId) == { c \in cartItems : c.user = userId }

\* C1: in every reachable state there is at most one CartItem row per
\* (user, item) pair, also when the reads and writes of addToCart calls by
\* the same user for the same item interleave.
C1_OneRowPerPair ==
    \A u \in Users, i \in ItemIds : Cardinality(cartItemsQuery(u, i)) <= 1

\* C2: after n >= 1 addToCart calls by a user for an item, each run to its end
\* before the next starts and with no removeFromCart of the pair's row since
\* the pair had no row, there is exactly one row for the pair, its quantity is
\* n, and it is the row the first call created.
C2_SequentialAdds ==
    \A u \in Users, i \in ItemIds :
        LET n == adds[<<u, i>>].n
        IN  IF n = 0
            THEN cartItemsQuery(u, i) = {}
            ELSE cartItemsQuery(u, i) =
                     {[id |-> adds[<<u, i>>].id, user |-> u, item |-> i, quantity |-> n]}

C2_TwoAddsOneRow ==
    \E u \in Users, i \in ItemIds :
        /\ adds[<<u, i>>].n = 2
        /\ last.op = "addToCart" /\ last.result = "ok" /\ last.value.quantity = 2
        /\ \E c \in cartItems : c.user = u /\ c.item = i /\ c.quantity = 2

\* C7: every createOrder call by an authenticated caller whose charge
\* succeeds leaves an Order in the database that snapshots the caller's cart,
\* leaves the caller's cart empty, and returns that Order.
C7_OrderCompleted ==
    (last.op = "createOrder" /\ last.caller # NoUserId /\ last.sent # Undefined
        /\ last.sent.outcome = "charged")
    => /\ last.result = "ok"
       /\ last.value # Undefined
       /\ last.value \in orders
       /\ CartOf(last.caller) = {}

\* C9: removeFromCart deletes the CartItem with the given id exactly when it
\* exists and the caller is its owner; with no such row it throws the
\* not-found error, for a caller who is not the owner the authorization
\* error, and in both cases no row is deleted.
C9_RemoveFromCart ==
    [][ last'.op = "removeFromCart" =>
          LET found == { c \in cartItems : c.id = last'.args.id }
          IN  IF found = {}
              THEN last'.result = "NotFoundError" /\ cartItems' = cartItems
              ELSE IF \A c \in found : c.user # last'.caller
              THEN last'.result = "AuthError" /\ cartItems' = cartItems
              ELSE /\ last'.result = "ok"
                   /\ cartItems' = cartItems \ found
                   /\ cartItems' # cartItems ]_vars

C9_OwnerRemoved ==
    /\ last.op = "removeFromCart"
    /\ last.result = "ok"
    /\ last.value.user = last.caller
    /\ \A c \in cartItems : c.id # last.args.id
    /\ cartItems # {}

----------------------------------------------------------------------------
(* Properties: password reset *)

KnownEmail(email) == \E u \in Users : users[u].email = email

\* C3: resetPassword succeeds only when password equals confirmPassword and
\* the token given is the resetToken stored on some user and the current time
\* is not later than the resetTokenExpiry stored with it; after a successful
\* call that user's resetToken and resetTokenExpiry are both null.
C3_ResetOnlyUnexpired ==
    [][ (last' # last /\ last'.op = "resetPassword" /\ last'.result = "ok") =>
          /\ last'.args.password = last'.args.confirmPassword
          /\ \E u \in Users :
                /\ users[u].resetToken = last'.args.resetToken
                /\ users[u].resetTokenExpiry # Null
                /\ now <= users[u].resetTokenExpiry[1]
                /\ users'[u].resetToken = Null
                /\ users'[u].resetTokenExpiry = Null ]_vars

\* C4: for each token requestReset stored, at most one resetPassword call
\* presenting it succeeds, however the lookups and updates of the calls
\* overlap.
C4_TokenSingleUse ==
    \A t \in Tokens : uses[t] <= 1

\* C10 as stated: requestReset for an existing user's email returns the
\* acknowledgement whether the mail is delivered or not, the token and its
\* expiry being stored on the user; for an email of no user it throws the
\* not-found error, stores no token and sends no mail.
C10_AckWhateverDelivery ==
    [][ (last' # last /\ last'.op = "requestReset") =>
          IF KnownEmail(last'.args.email)
          THEN /\ last'.result = "ok"
               /\ last'.value = [message |-> "Thanks!"]
               /\ \E u \in Users :
                     /\ users[u].email = last'.args.email
                     /\ users'[u].resetToken = last'.sent.resetToken
                     /\ users'[u].resetTokenExpiry = <<now + HourMs>>
          ELSE /\ last'.result = "NotFoundError"
               /\ users' = users
               /\ last'.sent = Undefined ]_vars

\* C10 as amended: requestReset for an existing user's email stores the token
\* and its expiry on the user and hands the mail to the transport; it returns
\* the acknowledgement when sendMail resolves, and throws sendMail's error
\* (token and expiry already stored) when sendMail rejects.  For an email of
\* no user it throws the not-found error, stores no token and sends no mail.
C10_AckUnlessSendMailRejects ==
    [][ (last' # last /\ last'.op = "requestReset") =>
          IF KnownEmail(last'.args.email)
          THEN /\ last'.sent # Undefined
               /\ last'.sent.to = last'.args.email
               /\ \E u \in Users :
                     /\ users[u].email = last'.args.email
                     /\ users'[u].resetToken = last'.sent.resetToken
                     /\ users'[u].resetTokenExpiry = <<now + HourMs>>
               /\ IF last'.sent.outcome = "rejects"
                  THEN last'.result = "MailError" /\ last'.value = Undefined
                  ELSE last'.result = "ok" /\ last'.value = [message |-> "Thanks!"]
          ELSE /\ last'.result = "NotFoundError"
               /\ users' = users
               /\ last'.sent = Undefined ]_vars

C10_RejectedAfterStoring ==
    /\ last.op = "requestReset"
    /\ last.result = "MailError"
    /\ \E u \in Users :
          /\ users[u].email = last.args.email
          /\ users[u].resetToken = last.sent.resetToken
          /\ users[u].resetTokenExpiry # Null

----------------------------------------------------------------------------
(* Properties: items and permissions *)

\* C5: deleteItem deletes the item exactly when the caller owns it or holds
\* ADMIN or ITEMDELETE; for every other caller, an unauthenticated one
\* included, it throws the authorization error and the item is still there.
C5_DeleteItem ==
    [][ (last'.op = "deleteItem" /\ \E it \in items : it.id = last'.args.id) =>
          LET item == CHOOSE it \in items : it.id = last'.args.id
              caller == last'.caller
              allowed ==
                  \/ item.user = caller
                  \/ /\ caller \in Users
                     /\ users[caller].permissions \cap {"ADMIN", "ITEMDELETE"} # {}
          IN  IF allowed
              THEN last'.result = "ok" /\ items' = items \ {item}
              ELSE last'.result = "AuthError" /\ items' = items ]_vars

\* C6: updatePermissions by an authenticated caller holding ADMIN or
\* PERMISSIONUPDATE sets the target user's permissions to exactly the list
\* given; by any other caller it throws the authorization error and the
\* target's permissions stay as they were.
C6_UpdatePermissions ==
    [][ (last'.op = "updatePermissions" /\ last'.args.userId \in Users) =>
          LET caller == last'.caller
              target == last'.args.userId
              allowed ==
                  /\ caller \in Users
                  /\ users[caller].permissions \cap {"ADMIN", "PERMISSIONUPDATE"} # {}
          IN  IF allowed
              THEN /\ last'.result = "ok"
                   /\ users'[target].permissions = last'.args.permissions
              ELSE /\ last'.result = "AuthError"
                   /\ users'[target].permissions = users[target].permissions ]_vars

C6_LabelsReplaced ==
    /\ last.op = "updatePermissions"
    /\ last.result = "ok"
    /\ last.args.permissions = {"ITEMDELETE"}
    /\ last.args.userId # last.caller
    /\ users[last.args.userId].permissions = {"ITEMDELETE"}

\* C8: createItem by an unauthenticated caller throws the authorization error
\* and creates nothing; by an authenticated caller, whatever record of fields
\* it is given, it creates one Item whose owner is the caller.
C8_OwnerIsCaller ==
    [][ last'.op = "createItem" =>
          IF last'.caller = NoUserId
          THEN last'.result = "AuthError" /\ items' = items
          ELSE /\ last'.result = "ok"
               /\ \E it \in items' \ items :
                     /\ items' = items \cup {it}
                     /\ it.user = last'.caller ]_vars

====
